---- MODULE Spec2Model ----
(***************************************************************************)
(* Model of the ICMP traceroute in src/Traceroute/main.go: tracert sweeps  *)
(* the hop limit, ping probes one hop, socketExchange runs the attempts of *)
(* one hop on a socket of its own.                                         *)
(*                                                                         *)
(* Time is counted in whole seconds from the start of the current          *)
(* socketExchange call; only a blocking ReadFrom lets time pass.           *)
(***************************************************************************)
EXTENDS Integers, Sequences, FiniteSets, TLC

\* ---- program constants (main.go:14-18) ----
AttemptsCount == 3
MaxTTL == 64
MaxWaitSec == 4

\* ---- bounds of the environment ----
\* number of distinct responder addresses on the network
NumPeers == 2
\* granularity of the reply delays the network can produce, in seconds
DelayStep == 2

\* longest address sequence handed to createPeersString
MaxAddrs == 3
\* most names a reverse lookup returns for one address
MaxNames == 2
\* largest payload size handed to buildEchoRequest
MaxSize == 60

PeerAddrs == 1..NumPeers
\* delays of replies that arrive less than MaxWaitSec after their probe
Delays == {d \in 0..(MaxWaitSec - 1) : d % DelayStep = 0}
\* a "delay" of MaxWaitSec stands for: nothing arrives within MaxWaitSec
ArrivalDelays == Delays \cup {MaxWaitSec}
\* the ICMP types a well-formed reply can carry
ReplyTypes == {"EchoReply", "TimeExceeded", "DestinationUnreachable"}
\* what a received datagram can hold
ReplyContents == ReplyTypes \cup {"malformed"}

NoLine == [ttl |-> 0, class |-> "none", durations |-> <<>>, peers |-> <<>>]
NoRet == [durations |-> <<>>, peers |-> <<>>, t |-> "nil", err |-> "none"]
NoReply == [content |-> "none", peer |-> 0, delay |-> 0]

VARIABLES
    pc,             \* control position of the single thread
    i,              \* tracert: loop counter = hop limit being probed
    pingRet,        \* tracert: value returned by the last ping call
    open,           \* number of raw sockets currently open
    sockTTL,        \* hop limit configured on the open socket, 0 = not set
    now,            \* seconds since the current exchange started
    deadline,       \* read deadline of the open socket
    start,          \* socketExchange: start of the current attempt
    k,              \* socketExchange: attempt loop counter (i in the source)
    t,              \* socketExchange: reduced ICMP type
    durationsArray, \* socketExchange: collected round-trip times
    peersArray,     \* socketExchange: collected responder addresses
    reply,          \* socketExchange: datagram read and not yet parsed
    ret,            \* values returned by socketExchange to ping
    line,           \* hop line printed by the current ping call
    nLines,         \* number of hop lines printed so far
    invalid,        \* number of "Invalid address" lines printed
    ended,          \* number of "Ended tracert" lines printed
    \* ---- history of the run, never read by the program ----
    probedLog,      \* hop limits ping was called with, in call order
    outcomes,       \* per-attempt outcomes of the current hop: what the
                    \* attempt ended in, after what delay, answered by whom
    setup,          \* how far the current hop's socket got: its setup
                    \* steps, then "closed" once an exchange that got
                    \* through its setup has returned
    sent,           \* probes sent for the current hop
    allTimedOut,    \* every attempt of every hop so far timed out
    reachedHops,    \* hop limits reported as Reached
    \* ---- one call of createPeersString ----
    ppc,            \* position of the call
    addrs,          \* createPeersString: the argument peersArray
    ptr,            \* what net.LookupAddr returns for each address
    buffStr,        \* createPeersString: the string returned
    \* ---- one call of buildEchoRequest ----
    bpc,            \* position of the call
    size,           \* buildEchoRequest: the argument size
    count,          \* buildEchoRequest: the loop counter
    buf             \* buildEchoRequest: the bytes written to buf

sockVars == <<open, sockTTL, now, deadline>>
localVars == <<start, k, t, durationsArray, peersArray, reply>>
outVars == <<line, nLines, invalid, ended>>
histVars == <<probedLog, outcomes, setup, sent, allTimedOut, reachedHops>>
presentVars == <<ppc, addrs, ptr, buffStr>>
buildVars == <<bpc, size, count, buf>>
traceVars == <<pc, i, pingRet, sockVars, localVars, ret, outVars, histVars>>
vars == <<traceVars, presentVars, buildVars>>

\* ---- decisions of the code, as operators ----

\* variant: the loop runs one hop limit too far
LoopCond_OffByOne(h) == h <= MaxTTL + 1

\* tracert: the for loop's condition
LoopCond(h) == h <= MaxTTL

\* variant: the socket is not closed on return
Close_Leak(n) == n

\* socketExchange: defer connection.Close()
Close(n) == n - 1

\* socketExchange: the deadline set by SetReadDeadline at time tm
ReadDeadline(tm) == tm + MaxWaitSec

\* socketExchange: ReadFrom returns a datagram arriving d seconds from tm
\* only if it arrives before the socket's read deadline dl
ReadInTime(tm, d, dl) == tm + d < dl

\* variant: the type of the last reply wins
NextType_Last(cur, mt) == IF mt = "EchoReply" THEN "EchoReply" ELSE "TimeExceeded"

\* socketExchange: the update of t after a parsed reply of type mt
NextType(cur, mt) == IF mt = "EchoReply" THEN "EchoReply" ELSE cur

\* socketExchange: the switch on t after the attempt loop
ExchangeResult(tt, durs, prs) ==
    IF tt \in {"EchoReply", "TimeExceeded"}
    THEN [durations |-> durs, peers |-> prs, t |-> tt, err |-> "nil"]
    ELSE [durations |-> <<0>>, peers |-> <<>>, t |-> "nil", err |-> "invalidType"]

\* variant: the error is swallowed and the hop passes for an expired probe
ErrorResult_Swallowed(cause) ==
    [durations |-> <<0>>, peers |-> <<>>, t |-> "TimeExceeded", err |-> "nil"]

\* variant: the type is returned along with the error
ErrorResult_KeepsType(cause) ==
    [durations |-> <<0>>, peers |-> <<>>, t |-> "TimeExceeded", err |-> cause]

\* socketExchange: the values returned on an error after the socket is open
ErrorResult(cause) ==
    [durations |-> <<0>>, peers |-> <<>>, t |-> "nil", err |-> cause]

\* variant: nothing is printed for a failed exchange
PingClass_SilentError(r) ==
    IF r.err = "nil"
    THEN IF r.t = "EchoReply" THEN "Reached"
         ELSE IF r.t = "TimeExceeded" THEN "TTLExc"
         ELSE "none"
    ELSE "none"

\* ping: the class of the line printed for a result, "none" = nothing printed
PingClass(r) ==
    IF r.err = "nil"
    THEN IF r.t = "EchoReply" THEN "Reached"
         ELSE IF r.t = "TimeExceeded" THEN "TTLExc"
         ELSE "none"
    ELSE "ERROR"

\* variant: ping never reports the destination as reached
PingReturn_Never(r) == FALSE

\* variant: ping also returns true when the exchange failed
PingReturn_OnError(r) == r.err # "nil" \/ r.t = "EchoReply"

\* ping: the value returned for a result
PingReturn(r) == r.err = "nil" /\ r.t = "EchoReply"

\* no call of createPeersString is being looked at
PresentIdle ==
    /\ ppc = "idle"
    /\ addrs = <<>>
    /\ ptr = <<>>
    /\ buffStr = <<>>

\* no call of buildEchoRequest is being looked at
BuildIdle ==
    /\ bpc = "idle"
    /\ size = 0
    /\ count = 0
    /\ buf = <<>>

\* ---- initial state: main has called tracert ----
TraceInit ==
    /\ pc = "resolve"
    /\ i = 0
    /\ pingRet = FALSE
    /\ open = 0
    /\ sockTTL = 0
    /\ now = 0
    /\ deadline = 0
    /\ start = 0
    /\ k = 0
    /\ t = "nil"
    /\ durationsArray = <<>>
    /\ peersArray = <<>>
    /\ reply = NoReply
    /\ ret = NoRet
    /\ line = NoLine
    /\ nLines = 0
    /\ invalid = 0
    /\ ended = 0
    /\ probedLog = <<>>
    /\ outcomes = <<>>
    /\ setup = "none"
    /\ sent = 0
    /\ allTimedOut = TRUE
    /\ reachedHops = {}

Init == TraceInit /\ PresentIdle /\ BuildIdle

\* ---- tracert ----

\* the head of the for loop with counter h: ping(destination, h) is called
\* if the condition holds, the loop is left otherwise
LoopHead(h) ==
    IF LoopCond(h)
    THEN /\ pc' = "listen"
         /\ probedLog' = Append(probedLog, h)
    ELSE /\ pc' = "end"
         /\ UNCHANGED probedLog

\* net.ResolveIPAddr succeeds: the loop is entered with i := 1
ResolveOk ==
    /\ pc = "resolve"
    /\ UNCHANGED <<presentVars, buildVars>>
    /\ i' = 1
    /\ LoopHead(1)
    /\ UNCHANGED <<pingRet, sockVars, localVars, ret, outVars, outcomes,
                   setup, sent, allTimedOut, reachedHops>>

\* variant: the return after "Invalid address" is missing
ResolveFail_NoReturn ==
    /\ pc = "resolve"
    /\ UNCHANGED <<presentVars, buildVars>>
    /\ invalid' = invalid + 1
    /\ i' = 1
    /\ LoopHead(1)
    /\ UNCHANGED <<pingRet, sockVars, localVars, ret, line, nLines, ended,
                   outcomes, setup, sent, allTimedOut, reachedHops>>

\* net.ResolveIPAddr fails: "Invalid address" and return
ResolveFail ==
    /\ pc = "resolve"
    /\ UNCHANGED <<presentVars, buildVars>>
    /\ pc' = "aborted"
    /\ invalid' = invalid + 1
    /\ UNCHANGED <<i, pingRet, sockVars, localVars, ret, line, nLines, ended,
                   histVars>>

\* variant: return instead of break
LoopBreak_Return ==
    /\ pc = "next"
    /\ UNCHANGED <<presentVars, buildVars>>
    /\ pingRet
    /\ pc' = "done"
    /\ UNCHANGED <<i, pingRet, sockVars, localVars, ret, outVars, histVars>>

\* ping returned true: break
LoopBreak ==
    /\ pc = "next"
    /\ UNCHANGED <<presentVars, buildVars>>
    /\ pingRet
    /\ pc' = "end"
    /\ UNCHANGED <<i, pingRet, sockVars, localVars, ret, outVars, histVars>>

\* ping returned false: i++ and back to the head of the loop
LoopStep ==
    /\ pc = "next"
    /\ UNCHANGED <<presentVars, buildVars>>
    /\ ~pingRet
    /\ i' = i + 1
    /\ LoopHead(i + 1)
    /\ UNCHANGED <<pingRet, sockVars, localVars, ret, outVars, outcomes,
                   setup, sent, allTimedOut, reachedHops>>

\* "Ended tracert"
PrintEnded ==
    /\ pc = "end"
    /\ UNCHANGED <<presentVars, buildVars>>
    /\ pc' = "done"
    /\ ended' = ended + 1
    /\ UNCHANGED <<i, pingRet, sockVars, localVars, ret, line, nLines, invalid,
                   histVars>>

\* ---- socketExchange ----

\* a return of socketExchange with the socket open: the deferred Close
\* runs, the locals go out of scope
ReturnWith(r) ==
    /\ pc' = "ping"
    /\ ret' = r
    /\ open' = Close(open)
    /\ sockTTL' = 0
    /\ now' = 0
    /\ deadline' = 0
    /\ start' = 0
    /\ k' = 0
    /\ t' = "nil"
    /\ durationsArray' = <<>>
    /\ peersArray' = <<>>
    /\ reply' = NoReply

\* ping has called socketExchange: the records of the hop start empty
HopStart ==
    /\ outcomes' = <<>>
    /\ sent' = 0
    /\ line' = NoLine

\* net.ListenPacket succeeds
ListenOk ==
    /\ pc = "listen"
    /\ UNCHANGED <<presentVars, buildVars>>
    /\ pc' = "deadline"
    /\ open' = open + 1
    /\ sockTTL' = 0
    /\ now' = 0
    /\ deadline' = 0
    /\ setup' = "listened"
    /\ HopStart
    /\ UNCHANGED <<i, pingRet, localVars, ret, nLines, invalid, ended,
                   probedLog, allTimedOut, reachedHops>>

\* net.ListenPacket fails: return before the defer is registered
ListenFail ==
    /\ pc = "listen"
    /\ UNCHANGED <<presentVars, buildVars>>
    /\ pc' = "ping"
    /\ ret' = [durations |-> <<>>, peers |-> <<>>, t |-> "nil", err |-> "listen"]
    /\ setup' = "listenFailed"
    /\ HopStart
    /\ allTimedOut' = FALSE
    /\ UNCHANGED <<i, pingRet, sockVars, localVars, nLines, invalid, ended,
                   probedLog, reachedHops>>

\* connection.SetReadDeadline succeeds
SetDeadlineOk ==
    /\ pc = "deadline"
    /\ UNCHANGED <<presentVars, buildVars>>
    /\ pc' = "setttl"
    /\ deadline' = ReadDeadline(now)
    /\ setup' = "deadlineSet"
    /\ UNCHANGED <<i, pingRet, open, sockTTL, now, localVars, ret, outVars,
                   probedLog, outcomes, sent, allTimedOut, reachedHops>>

\* connection.SetReadDeadline fails
SetDeadlineFail ==
    /\ pc = "deadline"
    /\ UNCHANGED <<presentVars, buildVars>>
    /\ ReturnWith(ErrorResult("deadline"))
    /\ setup' = "deadlineFailed"
    /\ allTimedOut' = FALSE
    /\ UNCHANGED <<i, pingRet, outVars, probedLog, outcomes, sent, reachedHops>>

\* p.SetTTL(ttl): its error is not looked at, so on failure the socket keeps
\* the hop limit it was created with; then the locals are declared
SetTTL ==
    /\ pc = "setttl"
    /\ UNCHANGED <<presentVars, buildVars>>
    /\ \E ok \in BOOLEAN :
         /\ sockTTL' = IF ok THEN i ELSE sockTTL
         /\ setup' = IF ok THEN "ttlSet" ELSE "ttlFailed"
    /\ pc' = "for"
    /\ k' = 0
    /\ t' = "TimeExceeded"
    /\ durationsArray' = <<>>
    /\ peersArray' = <<>>
    /\ UNCHANGED <<i, pingRet, open, now, deadline, start, reply, ret, outVars,
                   probedLog, outcomes, sent, allTimedOut, reachedHops>>

\* attempt loop, i < attempts: start := time.Now(), WriteTo writes it all
WriteOk ==
    /\ pc = "for"
    /\ UNCHANGED <<presentVars, buildVars>>
    /\ k < AttemptsCount
    /\ start' = now
    /\ sent' = sent + 1
    /\ pc' = "read"
    /\ UNCHANGED <<i, pingRet, sockVars, k, t, durationsArray, peersArray,
                   reply, ret, outVars, probedLog, outcomes, setup,
                   allTimedOut, reachedHops>>

\* WriteTo returns an error, or writes fewer bytes than len(b)
WriteFail ==
    /\ pc = "for"
    /\ UNCHANGED <<presentVars, buildVars>>
    /\ k < AttemptsCount
    /\ \E cause \in {"writeErr", "shortWrite"} :
         /\ ReturnWith(ErrorResult(cause))
         /\ outcomes' = Append(outcomes, [kind |-> cause, delay |-> 0, peer |-> 0])
    /\ setup' = "closed"
    /\ allTimedOut' = FALSE
    /\ UNCHANGED <<i, pingRet, outVars, probedLog, sent, reachedHops>>

\* variant: the duration and the peer are put in front
ReadOk_Prepend ==
    /\ pc = "read"
    /\ UNCHANGED <<presentVars, buildVars>>
    /\ \E d \in Delays, c \in ReplyContents, p \in PeerAddrs :
         /\ ReadInTime(now, d, deadline)
         /\ now' = now + d
         /\ reply' = [content |-> c, peer |-> p, delay |-> d]
         /\ durationsArray' = <<(now + d) - start>> \o durationsArray
         /\ peersArray' = <<p>> \o peersArray
    /\ pc' = "parse"
    /\ allTimedOut' = FALSE
    /\ UNCHANGED <<i, pingRet, open, sockTTL, deadline, start, k, t, ret,
                   outVars, probedLog, outcomes, setup, sent, reachedHops>>

\* ReadFrom returns a datagram that arrived before the deadline; the
\* duration and the peer are appended
ReadOk ==
    /\ pc = "read"
    /\ UNCHANGED <<presentVars, buildVars>>
    /\ \E d \in Delays, c \in ReplyContents, p \in PeerAddrs :
         /\ ReadInTime(now, d, deadline)
         /\ now' = now + d
         /\ reply' = [content |-> c, peer |-> p, delay |-> d]
         /\ durationsArray' = Append(durationsArray, (now + d) - start)
         /\ peersArray' = Append(peersArray, p)
    /\ pc' = "parse"
    /\ allTimedOut' = FALSE
    /\ UNCHANGED <<i, pingRet, open, sockTTL, deadline, start, k, t, ret,
                   outVars, probedLog, outcomes, setup, sent, reachedHops>>

\* variant: a timed-out attempt is skipped and the next one is made
ReadTimeout_Continue ==
    /\ pc = "read"
    /\ UNCHANGED <<presentVars, buildVars>>
    /\ \E d \in ArrivalDelays :
         /\ ~ReadInTime(now, d, deadline)
         /\ outcomes' = Append(outcomes, [kind |-> "timeout", delay |-> d, peer |-> 0])
    /\ k' = k + 1
    /\ pc' = "for"
    /\ UNCHANGED <<i, pingRet, sockVars, start, t, durationsArray, peersArray,
                   reply, ret, outVars, probedLog, setup, sent, allTimedOut,
                   reachedHops>>

\* ReadFrom fails with a timeout: nothing arrived before the deadline
ReadTimeout ==
    /\ pc = "read"
    /\ UNCHANGED <<presentVars, buildVars>>
    /\ \E d \in ArrivalDelays :
         /\ ~ReadInTime(now, d, deadline)
         /\ outcomes' = Append(outcomes, [kind |-> "timeout", delay |-> d, peer |-> 0])
    /\ ReturnWith(ErrorResult("timeout"))
    /\ setup' = "closed"
    /\ UNCHANGED <<i, pingRet, outVars, probedLog, sent, allTimedOut,
                   reachedHops>>

\* icmp.ParseMessage succeeds: t is updated, i++
ParseOk ==
    /\ pc = "parse"
    /\ UNCHANGED <<presentVars, buildVars>>
    /\ reply.content \in ReplyTypes
    /\ t' = NextType(t, reply.content)
    /\ outcomes' = Append(outcomes, [kind |-> reply.content, delay |-> reply.delay,
                                       peer |-> reply.peer])
    /\ k' = k + 1
    /\ reply' = NoReply
    /\ pc' = "for"
    /\ UNCHANGED <<i, pingRet, sockVars, start, durationsArray, peersArray,
                   ret, outVars, probedLog, setup, sent, allTimedOut,
                   reachedHops>>

\* icmp.ParseMessage fails
ParseFail ==
    /\ pc = "parse"
    /\ UNCHANGED <<presentVars, buildVars>>
    /\ reply.content = "malformed"
    /\ outcomes' = Append(outcomes, [kind |-> "parseErr", delay |-> reply.delay,
                                       peer |-> reply.peer])
    /\ ReturnWith(ErrorResult("parse"))
    /\ setup' = "closed"
    /\ UNCHANGED <<i, pingRet, outVars, probedLog, sent, allTimedOut,
                   reachedHops>>

\* attempt loop left: the switch on t
Reduce ==
    /\ pc = "for"
    /\ UNCHANGED <<presentVars, buildVars>>
    /\ k >= AttemptsCount
    /\ ReturnWith(ExchangeResult(t, durationsArray, peersArray))
    /\ setup' = "closed"
    /\ UNCHANGED <<i, pingRet, outVars, probedLog, outcomes, sent, allTimedOut,
                   reachedHops>>

\* ---- ping ----

\* ping prints the hop's line and returns to tracert
PingReport ==
    /\ pc = "ping"
    /\ UNCHANGED <<presentVars, buildVars>>
    /\ pc' = "next"
    /\ pingRet' = PingReturn(ret)
    /\ IF PingClass(ret) = "none"
       THEN UNCHANGED <<line, nLines>>
       ELSE /\ line' = [ttl |-> i, class |-> PingClass(ret),
                        durations |-> IF ret.err = "nil" THEN ret.durations ELSE <<>>,
                        peers |-> IF ret.err = "nil" THEN ret.peers ELSE <<>>]
            /\ nLines' = nLines + 1
    /\ reachedHops' = IF PingClass(ret) = "Reached"
                      THEN reachedHops \cup {i} ELSE reachedHops
    /\ ret' = NoRet
    /\ UNCHANGED <<i, sockVars, localVars, invalid, ended, probedLog, outcomes,
                   setup, sent, allTimedOut>>

Next ==
    \/ ResolveOk \/ ResolveFail
    \/ LoopBreak \/ LoopStep \/ PrintEnded
    \/ ListenOk \/ ListenFail
    \/ SetDeadlineOk \/ SetDeadlineFail
    \/ SetTTL
    \/ WriteOk \/ WriteFail
    \/ ReadOk \/ ReadTimeout
    \/ ParseOk \/ ParseFail
    \/ Reduce
    \/ PingReport

Spec == Init /\ [][Next]_vars

\* every call the thread makes returns: the only blocking call, ReadFrom,
\* is bounded by the read deadline
FairSpec == Spec /\ WF_vars(Next)

\* ---- createPeersString ----
\* Strings are sequences of characters.

\* the last character of the text of each address
HostDigits == <<"1", "2", "3", "4", "5", "6", "7", "8">>

\* net.Addr.String() of responder p
AddrText(p) == <<"9", ".", HostDigits[p]>>

\* the names a reverse lookup can return, each with its trailing dot
PtrNameSet == {<<"a", ".">>, <<"b", "c", ".">>}

\* the results net.LookupAddr can have: up to MaxNames names, none on failure
PtrResults == UNION {[1..n -> PtrNameSet] : n \in 0..MaxNames}

\* s[:len(s)-n]
DropLast(s, n) == SubSeq(s, 1, Len(s) - n)

\* the first loop: are all the addresses textually identical
PeersAreIdentical(pa) ==
    \A j \in 1..(Len(pa) - 1) : AddrText(pa[j]) = AddrText(pa[j + 1])

\* variant: only the first two addresses are compared
Collapse_FirstPair(pa) ==
    IF Len(pa) < 2 \/ AddrText(pa[1]) = AddrText(pa[2]) THEN <<pa[1]>> ELSE pa

\* variant: the sequence is never collapsed
Collapse_Never(pa) == pa

\* the sequence the second loop runs over
Collapse(pa) == IF PeersAreIdentical(pa) THEN <<pa[1]>> ELSE pa

\* the address whose names the second loop looks up at position j
LookedUp(pa, j) == pa[1]

\* the loop over the names: each without its last character, then "  "
RECURSIVE NamesLoop(_, _)
NamesLoop(names, j) ==
    IF j > Len(names) THEN <<>>
    ELSE DropLast(names[j], 1) \o <<" ", " ">> \o NamesLoop(names, j + 1)

\* ptrStr for the names a lookup returned
PtrStr(names) ==
    IF Len(names) > 0
    THEN DropLast(<<" ", "(">> \o NamesLoop(names, 1), 2) \o <<")">>
    ELSE <<>>

\* the loop over the addresses: the address, its ptrStr, then "  "
RECURSIVE PeersLoop(_, _, _)
PeersLoop(pa, lookup, j) ==
    IF j > Len(pa) THEN <<>>
    ELSE AddrText(pa[j]) \o PtrStr(lookup[LookedUp(pa, j)]) \o <<" ", " ">>
         \o PeersLoop(pa, lookup, j + 1)

\* the string createPeersString returns for a non-empty peersArray
createPeersString(pa, lookup) ==
    DropLast(<<"[">> \o PeersLoop(Collapse(pa), lookup, 1), 2) \o <<"]">>

\* a call of createPeersString with any sequence of up to MaxAddrs
\* addresses and any results of the reverse lookups
PresentInit ==
    /\ TraceInit
    /\ BuildIdle
    /\ ppc = "called"
    /\ addrs \in UNION {[1..n -> PeerAddrs] : n \in 0..MaxAddrs}
    /\ ptr \in [PeerAddrs -> PtrResults]
    /\ buffStr = <<>>

\* the call returns its string
Present ==
    /\ ppc = "called"
    /\ addrs # <<>>
    /\ buffStr' = createPeersString(addrs, ptr)
    /\ ppc' = "returned"
    /\ UNCHANGED <<addrs, ptr, traceVars, buildVars>>

\* peersArray[0] of an empty slice: the call panics
PresentPanic ==
    /\ ppc = "called"
    /\ addrs = <<>>
    /\ ppc' = "panic"
    /\ UNCHANGED <<addrs, ptr, buffStr, traceVars, buildVars>>

PresentNext == Present \/ PresentPanic

PresentSpec == PresentInit /\ [][PresentNext]_vars

\* ---- buildEchoRequest ----

\* dataChunk
DataChunk == <<"D", "A", "T", "A">>

\* variant: the number of chunks is rounded up
ChunkCount_RoundUp(sz) == (sz + Len(DataChunk) - 1) \div Len(DataChunk)

\* the initial value of the loop counter
ChunkCount(sz) == sz \div Len(DataChunk)

\* a call of buildEchoRequest with any size up to MaxSize
BuildInit ==
    /\ TraceInit
    /\ PresentIdle
    /\ bpc = "loop"
    /\ size \in 0..MaxSize
    /\ count = ChunkCount(size)
    /\ buf = <<>>

\* one turn of the loop: a whole chunk is written
BuildChunk ==
    /\ bpc = "loop"
    /\ count > 0
    /\ buf' = buf \o DataChunk
    /\ count' = count - 1
    /\ UNCHANGED <<bpc, size, traceVars, presentVars>>

\* the loop is left: the first diff bytes of a chunk are written if
\* diff > 0, and the buffer becomes the Data of the Echo message
BuildTail ==
    /\ bpc = "loop"
    /\ count <= 0
    /\ LET diff == size - Len(buf)
       IN  buf' = IF diff > 0 THEN buf \o SubSeq(DataChunk, 1, diff) ELSE buf
    /\ bpc' = "returned"
    /\ UNCHANGED <<size, count, traceVars, presentVars>>

BuildNext == BuildChunk \/ BuildTail

BuildSpec == BuildInit /\ [][BuildNext]_vars

\* ---- vocabulary of the properties ----

\* the outcomes the attempts of the current hop had
Kinds == {outcomes[j].kind : j \in DOMAIN outcomes}

\* the exchange of the current hop failed: its setup or one of its attempts
HopFailed ==
    \/ setup \in {"listenFailed", "deadlineFailed"}
    \/ Kinds \cap {"writeErr", "shortWrite", "timeout", "parseErr"} # {}

\* ping has returned for the current hop and tracert has not yet acted on it
HopReported == pc = "next"

\* the hop limits 1..n in increasing order
UpTo(n) == [j \in 1..n |-> j]

\* the state of the Trace Controller (spec 4.5)
TraceState ==
    IF pc \in {"end", "done"}
    THEN IF pingRet THEN "Reached" ELSE "Exhausted"
    ELSE IF pc = "aborted" THEN "Aborted" ELSE "Sweeping"

\* the positions at which the thread is inside socketExchange with a socket
InExchange == pc \in {"deadline", "setttl", "for", "read", "parse"}

\* ---- C1 ----
\* C1 as stated: EchoReply > TimeExceeded > Error over the attempts of a hop:
\* an EchoReply in any attempt makes the hop Reached and stops the sweep,
\* otherwise a TimeExceeded in any attempt makes it TimeExceeded, only
\* otherwise it is Error.
C1_PrecedenceAsStated ==
    HopReported =>
        IF "EchoReply" \in Kinds
        THEN line.class = "Reached" /\ pingRet
        ELSE IF "TimeExceeded" \in Kinds
             THEN line.class = "TTLExc"
             ELSE line.class = "ERROR"

\* C1 amended: Error comes first. A hop whose setup or any attempt failed is
\* reported as Error and the sweep goes on, whatever earlier attempts
\* received. Otherwise an EchoReply in any attempt makes the hop Reached and
\* stops the sweep, and otherwise a TimeExceeded in any attempt makes it
\* TimeExceeded.
C1_ErrorFirstPrecedence ==
    HopReported =>
        IF HopFailed
        THEN line.class = "ERROR" /\ ~pingRet
        ELSE IF "EchoReply" \in Kinds
             THEN line.class = "Reached" /\ pingRet
             ELSE "TimeExceeded" \in Kinds => line.class = "TTLExc" /\ ~pingRet

\* a hop reported as Reached whose last attempt received TimeExceeded
C1_Witness ==
    /\ HopReported
    /\ Len(outcomes) = AttemptsCount
    /\ outcomes[1].kind = "EchoReply"
    /\ outcomes[AttemptsCount].kind = "TimeExceeded"
    /\ line.class = "Reached"

\* ---- C2 ----
\* C2: a hop in which some attempt received a well-formed reply that is
\* neither EchoReply nor TimeExceeded is reported as Error, and the sweep
\* goes on.
C2_OtherTypeIsError ==
    HopReported /\ "DestinationUnreachable" \in Kinds
        => line.class = "ERROR" /\ ~pingRet

\* ---- C3 ----
\* C3: when an attempt has sent its probe the read deadline is MaxWaitSec
\* after the send, and no reply that arrives less than MaxWaitSec after the
\* send of its attempt is turned into a timeout.
C3_DeadlineRearmed ==
    /\ pc = "read" => deadline = start + MaxWaitSec
    /\ \A j \in DOMAIN outcomes :
         outcomes[j].kind = "timeout" => outcomes[j].delay >= MaxWaitSec

\* ---- C4 ----
\* the steps one hop can still take from the current position
HopRank ==
    IF pc = "listen" THEN 3 * AttemptsCount + 6
    ELSE IF pc = "deadline" THEN 3 * AttemptsCount + 5
    ELSE IF pc = "setttl" THEN 3 * AttemptsCount + 4
    ELSE IF pc = "for" THEN 3 * (AttemptsCount - k) + 3
    ELSE IF pc = "read" THEN 3 * (AttemptsCount - k) + 2
    ELSE IF pc = "parse" THEN 3 * (AttemptsCount - k) + 1
    ELSE IF pc = "ping" THEN 2
    ELSE 1

\* a bound on the steps the trace can still take
Rank ==
    IF pc \in {"done", "aborted"} THEN 0
    ELSE IF pc = "end" THEN 1
    ELSE IF pc = "resolve" THEN (3 * AttemptsCount + 6) * MaxTTL + 2
    ELSE (3 * AttemptsCount + 6) * (MaxTTL - i) + HopRank + 1

\* C4: no hop limit above MaxTTL is probed and at most MaxTTL hop limits are
\* probed; the sweep cannot loop for ever, because every step lowers a
\* natural number, and it cannot stop before a terminal state, because a
\* step is possible wherever the trace is not over, and a sweep that is
\* over is Reached or Exhausted.
C4_SweepTerminates ==
    /\ [](/\ Len(probedLog) <= MaxTTL
          /\ \A j \in DOMAIN probedLog : probedLog[j] \in 1..MaxTTL
          /\ Rank \in Nat
          /\ pc \notin {"done", "aborted"} => ENABLED Next
          /\ pc = "done" => TraceState \in {"Reached", "Exhausted"})
    /\ [][Rank' < Rank]_vars

\* the sweep ended after MaxTTL hops without reaching the destination
C4_Witness ==
    /\ pc = "done"
    /\ TraceState = "Exhausted"
    /\ Len(probedLog) = MaxTTL

\* ---- C5 ----
\* C5: when hop h is reported as Reached, the hop limits 1..h were probed
\* once each in increasing order, each got its line, none before h was
\* reported as Reached, and afterwards no probe is sent and no hop is probed.
C5_ReachedIsTerminal ==
    /\ [](\A h \in reachedHops :
            /\ reachedHops = {h}
            /\ probedLog = UpTo(h)
            /\ nLines = h
            /\ line.ttl = h /\ line.class = "Reached")
    /\ [][reachedHops # {} => sent' = sent /\ probedLog' = probedLog /\ open' = 0]_vars

\* the destination answered at hop 5 and the trace is over
C5_Witness ==
    /\ pc = "done"
    /\ reachedHops = {5}
    /\ probedLog = UpTo(5)

\* ---- C6 ----
\* C6: a hop h < MaxTTL whose exchange failed is reported as an error line,
\* and the next thing the sweep does is to probe h + 1.
C6_HopErrorNotFatal ==
    /\ [](HopReported /\ HopFailed =>
            line.class = "ERROR" /\ line.ttl = i /\ nLines = Len(probedLog))
    /\ [][HopReported /\ HopFailed /\ i < MaxTTL =>
            /\ pc' = "listen"
            /\ i' = i + 1
            /\ probedLog' = Append(probedLog, i + 1)]_vars

\* ping is called for hop 2 after hop 1 failed on a malformed reply
C6_Witness ==
    /\ pc = "listen"
    /\ i = 2
    /\ probedLog = UpTo(2)
    /\ line.ttl = 1 /\ line.class = "ERROR"
    /\ "parseErr" \in Kinds

\* ---- C7 ----
\* C7: as long as every attempt has timed out, every hop line is an Error
\* line, and a trace that ends that way has probed 1..MaxTTL once each, has
\* printed MaxTTL lines and is Exhausted.
C7_AllTimeoutsExhaust ==
    allTimedOut =>
        /\ line.class \in {"none", "ERROR"}
        /\ HopReported => line.class = "ERROR" /\ line.ttl = i
        /\ pc = "done" =>
             /\ probedLog = UpTo(MaxTTL)
             /\ nLines = MaxTTL
             /\ TraceState = "Exhausted"

\* a trace in which nothing ever answered has ended
C7_Witness ==
    /\ pc = "done"
    /\ allTimedOut
    /\ Len(probedLog) = MaxTTL

\* ---- C8 ----
\* C8: a probe is sent only on a socket whose hop limit was set to the
\* hop's value; a hop whose setup failed at any step sends no probe.
C8_NoProbeWithoutSetup ==
    /\ InExchange /\ sent > 0 => setup = "ttlSet"
    /\ setup \in {"listenFailed", "deadlineFailed"} => sent = 0
    /\ pc = "read" => sockTTL = i

\* ---- C9 ----
\* C9: at most one socket is open, and none is open outside socketExchange:
\* whatever way the exchange returned, its socket is closed.
C9_SocketScoped ==
    /\ open \in {0, 1}
    /\ ~InExchange => open = 0

\* the exchange opened a socket and returned on a read timeout
C9_Witness ==
    /\ pc = "ping"
    /\ ret.err = "timeout"
    /\ setup = "closed"
    /\ open = 0

\* ---- C10 ----
\* C10: when the destination does not resolve, "Invalid address" is printed
\* once and the trace is over: no hop is probed, no socket opened, no probe
\* sent, no hop line printed.
C10_ResolveFailureAborts ==
    invalid > 0 =>
        /\ invalid = 1
        /\ pc = "aborted"
        /\ probedLog = <<>>
        /\ open = 0
        /\ sent = 0
        /\ nLines = 0 /\ line = NoLine

\* the trace was aborted on an unresolvable destination
C10_Witness ==
    /\ pc = "aborted"
    /\ invalid = 1

\* ---- vocabulary of the properties of createPeersString ----

\* the responder whose address text ends in the character c
PeerOfDigit(c) == CHOOSE p \in DOMAIN HostDigits : HostDigits[p] = c

\* the addresses a presented string shows, in the order it shows them
ShownAddrs(str) ==
    LET ds == SelectSeq(str, LAMBDA c : \E p \in DOMAIN HostDigits : HostDigits[p] = c)
    IN  [j \in 1..Len(ds) |-> PeerOfDigit(ds[j])]

\* all the elements of a sequence are the same
AllSame(sq) == \A j, m \in DOMAIN sq : sq[j] = sq[m]

\* no element of a sequence occurs twice
NoRepeat(sq) == \A j, m \in DOMAIN sq : sq[j] = sq[m] => j = m

\* the first occurrences of the elements of a sequence, in order
RECURSIVE FirstOccurrences(_)
FirstOccurrences(sq) ==
    IF sq = <<>> THEN <<>>
    ELSE LET front == SubSeq(sq, 1, Len(sq) - 1)
             rest == FirstOccurrences(front)
         IN  IF \E j \in DOMAIN front : front[j] = sq[Len(sq)]
             THEN rest ELSE Append(rest, sq[Len(sq)])

\* the texts of a sequence, with sep between them
RECURSIVE Join(_, _)
Join(texts, sep) ==
    IF texts = <<>> THEN <<>>
    ELSE IF Len(texts) = 1 THEN texts[1]
    ELSE texts[1] \o sep \o Join(Tail(texts), sep)

\* an address followed by the names it resolves to, in parentheses
Annotated(a, lookup) ==
    LET names == lookup[a]
        bare == [j \in 1..Len(names) |-> SubSeq(names[j], 1, Len(names[j]) - 1)]
    IN  AddrText(a) \o
        (IF names = <<>> THEN <<>>
         ELSE <<" ", "(">> \o Join(bare, <<" ", " ">>) \o <<")">>)

\* ---- C12 ----
\* C12: for a sequence that is not all-identical, the summary shows every
\* address followed by the names that same address resolves to, and by
\* nothing when it resolves to no name.
C12_NamesOfSameAddress ==
    ppc = "returned" /\ ~AllSame(addrs) =>
        buffStr = <<"[">>
                  \o Join([j \in 1..Len(addrs) |-> Annotated(addrs[j], ptr)],
                          <<" ", " ">>)
                  \o <<"]">>

\* ---- C13 ----
\* C13 as stated: no address is shown twice, and the addresses shown are
\* the distinct addresses of the input in first-occurrence order.
C13_DeduplicatedAsStated ==
    ppc = "returned" =>
        /\ NoRepeat(ShownAddrs(buffStr))
        /\ ShownAddrs(buffStr) = FirstOccurrences(addrs)

\* C13 amended: only a sequence whose addresses are all identical is
\* collapsed, to one address; of any other sequence every address is shown,
\* in input order, repeated ones as often as they occur.
C13_CollapseOnlyIfAllIdentical ==
    ppc = "returned" =>
        ShownAddrs(buffStr) = IF AllSame(addrs) THEN <<addrs[1]>> ELSE addrs

\* responders A, A, B are shown as A, A, B
C13_Witness ==
    /\ ppc = "returned"
    /\ addrs = <<1, 1, 2>>
    /\ ShownAddrs(buffStr) = <<1, 1, 2>>

\* ---- C14 ----
\* C14: a sequence of n >= 1 identical addresses is presented as the single
\* address is: one address shown, and the same string.
C14_CollapseLengthIndependent ==
    ppc = "returned" /\ AllSame(addrs) =>
        /\ ShownAddrs(buffStr) = <<addrs[1]>>
        /\ buffStr = createPeersString(<<addrs[1]>>, ptr)
        /\ buffStr = <<"[">> \o Annotated(addrs[1], ptr) \o <<"]">>

\* MaxAddrs copies of an address with two names were presented
C14_Witness ==
    /\ ppc = "returned"
    /\ Len(addrs) = MaxAddrs
    /\ AllSame(addrs)
    /\ Len(ptr[addrs[1]]) = 2
    /\ Len(ShownAddrs(buffStr)) = 1

\* ---- C15 ----
\* C15: the payload has exactly size bytes, and its byte at index j
\* (counted from 0) is byte j mod 4 of "DATA".
C15_PayloadPattern ==
    bpc = "returned" =>
        /\ Len(buf) = size
        /\ \A j \in 0..(size - 1) : buf[j + 1] = <<"D", "A", "T", "A">>[(j % 4) + 1]

\* the payload of size 6 ends in a truncated repetition
C15_Witness ==
    /\ bpc = "returned"
    /\ size = 6
    /\ buf = <<"D", "A", "T", "A", "D", "A">>

\* ---- vocabulary of the properties of one hop ----

\* the ways an attempt can fail
AttemptFailures == {"writeErr", "shortWrite", "timeout", "parseErr"}

\* an attempt of the current hop failed
AttemptFailed == Kinds \cap AttemptFailures # {}

\* the probes of the current hop that ReadFrom has dealt with
Answered ==
    Cardinality({j \in DOMAIN outcomes :
                    outcomes[j].kind \notin {"writeErr", "shortWrite"}})

\* ping is inside its call of socketExchange, or has its result in hand
InPing == pc \in {"listen", "deadline", "setttl", "for", "read", "parse", "ping"}

\* ---- C11 ----
\* C11: a call of ping prints no line before it returns its result and has
\* printed exactly one when it has returned, for the hop limit it was called
\* with and of class Reached, TTLExc or ERROR.
C11_OneLinePerHop ==
    /\ InPing => nLines = Len(probedLog) - 1
    /\ pc \in {"next", "end", "done"} => nLines = Len(probedLog)
    /\ HopReported =>
         /\ line.ttl = i
         /\ line.class \in {"Reached", "TTLExc", "ERROR"}
         /\ line.class = "Reached" <=> pingRet

\* the third hop was reported as TTLExc
C11_Witness ==
    /\ HopReported
    /\ i = 3
    /\ nLines = 3
    /\ line.class = "TTLExc"

\* ---- C16 ----
\* C16: "Ended tracert" is printed at most once, it has been printed exactly
\* when the trace is over, no hop line follows it, every hop probed has its
\* line by then, and a trace whose destination resolved gets there: it can
\* always take a step until then, and every step lowers a natural number.
C16_CompletionReported ==
    /\ [](/\ ended \in {0, 1}
          /\ ended = 1 <=> pc = "done"
          /\ pc = "done" =>
               /\ nLines = Len(probedLog)
               /\ nLines >= 1
               /\ TraceState \in {"Reached", "Exhausted"}
          /\ pc \notin {"resolve", "aborted", "done"} =>
               /\ invalid = 0
               /\ Rank > 0
               /\ ENABLED Next)
    /\ [][/\ Rank' < Rank
          /\ ended' # ended => ended' = 1 /\ nLines' = nLines
          /\ ended = 1 => nLines' = nLines /\ ended' = 1]_vars

\* the trace ended after the destination answered at the second hop
C16_Witness ==
    /\ pc = "done"
    /\ ended = 1
    /\ TraceState = "Reached"
    /\ nLines = 2

\* ---- C17 ----
\* C17: once an attempt of a hop has failed, the exchange is over: the
\* failed attempt is the hop's last, no further probe is sent for the hop,
\* socketExchange returns the error without the durations and addresses
\* collected before, and the hop is reported as ERROR, without them.
C17_FirstFailureAborts ==
    /\ [](AttemptFailed =>
            /\ ~InExchange
            /\ outcomes[Len(outcomes)].kind \in AttemptFailures
            /\ \A j \in 1..(Len(outcomes) - 1) : outcomes[j].kind \in ReplyTypes
            /\ sent <= Len(outcomes)
            /\ pc = "ping" =>
                 /\ ret.err \notin {"nil", "none"}
                 /\ ret.t = "nil"
                 /\ ret.durations = <<0>>
                 /\ ret.peers = <<>>
            /\ HopReported =>
                 /\ line = [ttl |-> i, class |-> "ERROR",
                            durations |-> <<>>, peers |-> <<>>]
                 /\ ~pingRet)
    /\ [][AttemptFailed => sent' = sent \/ (pc = "listen" /\ sent' = 0)]_vars

\* a hop whose second attempt timed out after the first was answered
C17_Witness ==
    /\ HopReported
    /\ Len(outcomes) = 2
    /\ outcomes[1].kind = "TimeExceeded"
    /\ outcomes[2].kind = "timeout"
    /\ sent = 2
    /\ line.class = "ERROR"

\* ---- C18 ----
\* C18: the hop limits probed are 1, 2, 3, ... up to MaxTTL at most, the
\* counter is the hop limit being probed, and a probe of hop h is sent on a
\* socket whose hop limit is h.
C18_CounterAndSocketTTL ==
    /\ probedLog = UpTo(Len(probedLog))
    /\ Len(probedLog) <= MaxTTL
    /\ InPing \/ HopReported => i \in 1..MaxTTL /\ i = Len(probedLog)
    /\ pc = "read" => sockTTL = probedLog[Len(probedLog)]

\* ---- C19 ----
\* C19: a hop sends at most AttemptsCount probes, at most one probe is
\* unanswered at any time, a probe is sent only when every earlier attempt
\* of the hop has had its reply parsed, and a hop reported as Reached or
\* TTLExc has sent AttemptsCount probes and carries the AttemptsCount
\* durations and responder addresses of its attempts in attempt order.
C19_SequentialAttempts ==
    /\ [](/\ sent <= AttemptsCount
          /\ sent - Answered \in {0, 1}
          /\ sent - Answered = 1 <=> pc \in {"read", "parse"}
          /\ HopReported /\ line.class \in {"Reached", "TTLExc"} =>
               /\ sent = AttemptsCount
               /\ Len(outcomes) = AttemptsCount
               /\ line.durations = [j \in 1..AttemptsCount |-> outcomes[j].delay]
               /\ line.peers = [j \in 1..AttemptsCount |-> outcomes[j].peer])
    /\ [][sent' > sent =>
            /\ sent' = sent + 1
            /\ Len(outcomes) = sent
            /\ \A j \in DOMAIN outcomes : outcomes[j].kind \in ReplyTypes]_vars

\* a hop reported with the addresses of two different responders
C19_Witness ==
    /\ HopReported
    /\ line.class = "TTLExc"
    /\ line.peers = <<1, 2, 1>>
    /\ line.durations = <<0, DelayStep, 0>>

\* ---- C20 ----
\* C20: createPeersString is called only with a non-empty sequence: a
\* result of socketExchange without error carries a type and at least one
\* address, a result with an error carries no type, and only the lines
\* Reached and TTLExc, printed for results without error, present addresses.
C20_PresenterArgumentNonEmpty ==
    /\ pc = "ping" =>
         IF ret.err = "nil"
         THEN ret.t \in {"EchoReply", "TimeExceeded"} /\ Len(ret.peers) >= 1
         ELSE ret.t = "nil"
    /\ line.class \in {"Reached", "TTLExc"} => Len(line.peers) >= 1
    /\ line.class = "ERROR" => line.peers = <<>>

\* ping is about to present the addresses of a successful exchange
C20_Witness ==
    /\ pc = "ping"
    /\ ret.err = "nil"
    /\ Len(ret.peers) = AttemptsCount

====
